---- MODULE Spec2Model ----
(***************************************************************************)
(* Model of the JSON-RPC service generator (src/src/service/jsonrpc.ts)    *)
(* and of the message renderer (src/src/ts/message.ts).                    *)
(*                                                                         *)
(* Text is a sequence of lines; a line is [indent, text], text a sequence  *)
(* of string tokens.  Dotted names (type names, type expressions) are      *)
(* token sequences such as <<"pa", ".", "A">>, so that String.slice and    *)
(* String.indexOf are computed on them rather than assumed.                *)
(***************************************************************************)
EXTENDS Naturals, Sequences, FiniteSets, TLC

VARIABLES
    phase,              \* "input" before the entry point ran, "done" after
    fileDescriptor,     \* FileDescriptorProto handed to the entry point
    exportMap,          \* ExportMap built for the request, read-only
    messageDescriptor,  \* DescriptorProto handed to printMessage
    result,             \* what the entry point returned or threw
    printer             \* printMessage's own Printer when it was left

vars == <<phase, fileDescriptor, exportMap, messageDescriptor, result, printer>>

\* ------------------------------------------------------------------ bounds

MaxServices == 2
MaxMethods == 2
MaxDeps == 2
MaxFields == 2
MaxDepth == 2

\* ------------------------------------------------------- sequence helpers

SeqsUpTo(S, n) == UNION {[1..k -> S] : k \in 0..n}

InjSeqsUpTo(S, n) ==
    {s \in SeqsUpTo(S, n) : \A i, j \in DOMAIN s : s[i] = s[j] => i = j}

RECURSIVE Flatten(_)
Flatten(ss) == IF ss = <<>> THEN <<>> ELSE Head(ss) \o Flatten(Tail(ss))

\* String.prototype.slice(1)
slice1(s) == IF s = <<>> THEN <<>> ELSE Tail(s)

\* String.prototype.indexOf(p) === 0
StartsWith(s, p) == Len(p) <= Len(s) /\ SubSeq(s, 1, Len(p)) = p

\* ------------------------------------------------------------ the Printer

Ln(indent, text) == [indent |-> indent, text |-> text]

EmptyLn == [indent |-> 0, text |-> <<>>]

\* ------------------------------------------------------------------- util

ProtoSuffix == ".proto"

\* a file path is its segments followed by its suffix:
\* <<"google", "protobuf", "empty", ".proto">> is google/protobuf/empty.proto
RECURSIVE Join(_, _)
Join(segments, separator) ==
    IF Len(segments) = 1 THEN segments[1]
    ELSE segments[1] \o separator \o Join(Tail(segments), separator)

Stem(filePath) == SubSeq(filePath, 1, Len(filePath) - 1)

filePathToPseudoNamespace(filePath) == Join(Stem(filePath), "_") \o "_pb"

\* a path that has lost its suffix is <<text>> and is left as it is
replaceProtoSuffix(filePath) ==
    IF filePath[Len(filePath)] = ProtoSuffix
    THEN <<Join(Stem(filePath), "/") \o "_pb">>
    ELSE filePath

RECURSIVE Repeat(_, _)
Repeat(text, n) == IF n = 0 THEN "" ELSE text \o Repeat(text, n - 1)

getPathToRoot(filePath) ==
    LET depth == Len(Stem(filePath))
    IN  IF depth = 1 THEN "./" ELSE Repeat("../", depth - 1)

ReservedWords == {"delete", "class"}

normaliseFieldObjectName(name) ==
    IF name \in ReservedWords THEN "pb_" \o name ELSE name

\* name[0].toLowerCase() + name.substr(1), on the names the model draws
LowerFirst(name) ==
    CASE name = "GetUser" -> "getUser"
      [] name = "List" -> "list"
      [] name = "Watch" -> "watch"
      [] OTHER -> name

\* withinNamespaceFromExportEntry: the name without its package prefix
withinNamespaceFromExportEntry(name, exportEntry) ==
    IF exportEntry.pkg = <<>>
    THEN name
    ELSE SubSeq(name, Len(exportEntry.pkg) + 2, Len(name))

\* -------------------------------------------------------------- ExportMap

HostFile == <<"host", ".proto">>
DepA == <<"dep_a", ".proto">>
DepB == <<"dep_b", ".proto">>
WellKnownEmpty == <<"google", "protobuf", "empty", ".proto">>

WellKnownTypesMap ==
    [f \in {WellKnownEmpty} |-> "google-protobuf/google/protobuf/empty_pb"]

\* an optional value (undefined or set) is <<>> or <<v>>
Undefined == <<>>
Defined(v) == <<v>>

MessageEntry(pkg, fileName) ==
    [pkg |-> pkg, fileName |-> fileName, messageOptions |-> Undefined,
     mapFieldOptions |-> Undefined]

EnumEntry(pkg, fileName) == [pkg |-> pkg, fileName |-> fileName]

\* exports of the files the request carries beside the host file
DependencyMessages ==
    (<<"pa", ".", "A">> :> MessageEntry(<<"pa">>, DepA))
    @@ (<<"pb", ".", "Outer", ".", "Inner">> :> MessageEntry(<<"pb">>, DepB))
    @@ (<<"google", ".", "protobuf", ".", "Empty">>
            :> MessageEntry(<<"google", ".", "protobuf">>, WellKnownEmpty))

DependencyEnums ==
    (<<"pa", ".", "Kind">> :> EnumEntry(<<"pa">>, DepA))

hasMessage(em, typeName) == typeName \in DOMAIN em.messageMap
getMessage(em, typeName) == em.messageMap[typeName]
hasEnum(em, typeName) == typeName \in DOMAIN em.enumMap
getEnum(em, typeName) == em.enumMap[typeName]

\* ------------------------------------------------------------- FieldTypes

MESSAGE_TYPE == "TYPE_MESSAGE"
BYTES_TYPE == "TYPE_BYTES"
ENUM_TYPE == "TYPE_ENUM"

getTypeName(type) ==
    CASE type = "TYPE_INT64" -> <<"number">>
      [] type = "TYPE_INT32" -> <<"number">>
      [] type = "TYPE_STRING" -> <<"string">>
      [] type = "TYPE_BOOL" -> <<"boolean">>
      [] type = BYTES_TYPE -> <<"Uint8Array">>
      [] OTHER -> <<"any">>

Returned(value) == [thrown |-> FALSE, value |-> value]
Thrown(error) == [thrown |-> TRUE, error |-> error]

\* a throw leaves the caller at once; a returned value goes on into the rest
Try(r, Rest(_)) == IF r.thrown THEN r ELSE Rest(r.value)

getFieldType(type, typeName, currentFileName, em) ==
    IF type = MESSAGE_TYPE
    THEN IF ~hasMessage(em, typeName)
         THEN Thrown(<<"Could not getFieldType for message: ">> \o typeName)
         ELSE LET fromExport == getMessage(em, typeName)
                  withinNamespace ==
                      withinNamespaceFromExportEntry(typeName, fromExport)
              IN  IF fromExport.fileName = currentFileName
                  THEN Returned(withinNamespace)
                  ELSE Returned(
                      <<filePathToPseudoNamespace(fromExport.fileName), ".">>
                          \o withinNamespace)
    ELSE IF type = ENUM_TYPE
    THEN IF ~hasEnum(em, typeName)
         THEN Thrown(<<"Could not getFieldType for enum: ">> \o typeName)
         ELSE LET fromExport == getEnum(em, typeName)
                  withinNamespace ==
                      withinNamespaceFromExportEntry(typeName, fromExport)
              IN  IF fromExport.fileName = currentFileName
                  THEN Returned(withinNamespace)
                  ELSE Returned(
                      <<filePathToPseudoNamespace(fromExport.fileName), ".">>
                          \o withinNamespace)
    ELSE Returned(getTypeName(type))

\* ------------------------------------------------------------ ServiceView

getCallingTypes(method, em) ==
    Try(getFieldType(MESSAGE_TYPE, slice1(method.inputType), <<>>, em),
        LAMBDA requestType :
    Try(getFieldType(MESSAGE_TYPE, slice1(method.outputType), <<>>, em),
        LAMBDA responseType :
    Returned([requestType |-> requestType, responseType |-> responseType])))

\* mutant: only the request type is tested
usesNamespaceOfRequestOnly(callingTypes, pseudoNamespace) ==
    StartsWith(callingTypes.requestType, <<pseudoNamespace, ".">>)

\* the predicate isUsed hands to some(): does the method name the namespace
usesNamespace(callingTypes, pseudoNamespace) ==
    LET namespacePackage == <<pseudoNamespace, ".">>
    IN  \/ StartsWith(callingTypes.requestType, namespacePackage)
        \/ StartsWith(callingTypes.responseType, namespacePackage)

\* some() over the methods in service order: stops at the first hit or throw
RECURSIVE someMethodUses(_, _, _)
someMethodUses(methodList, pseudoNamespace, em) ==
    IF methodList = <<>> THEN Returned(FALSE)
    ELSE Try(getCallingTypes(Head(methodList), em),
             LAMBDA callingTypes :
                 IF usesNamespace(callingTypes, pseudoNamespace)
                 THEN Returned(TRUE)
                 ELSE someMethodUses(Tail(methodList), pseudoNamespace, em))

isUsed(fd, pseudoNamespace, em) ==
    someMethodUses(
        Flatten([i \in DOMAIN fd.serviceList |-> fd.serviceList[i].methodList]),
        pseudoNamespace, em)

RPCMethodDescriptor(service, method, callingTypes) ==
    [nameAsPascalCase |-> method.name,
     nameAsCamelCase |-> LowerFirst(method.name),
     functionName |-> normaliseFieldObjectName(method.name),
     serviceName |-> service.name,
     requestStream |-> method.clientStreaming,
     responseStream |-> method.serverStreaming,
     requestType |-> callingTypes.requestType,
     responseType |-> callingTypes.responseType]

\* RPCDescriptor.methods: map() over the method list, left to right
RECURSIVE mapMethods(_, _, _)
mapMethods(service, methodList, em) ==
    IF methodList = <<>> THEN Returned(<<>>)
    ELSE Try(getCallingTypes(Head(methodList), em),
             LAMBDA callingTypes :
         Try(mapMethods(service, Tail(methodList), em),
             LAMBDA rest :
         Returned(<<RPCMethodDescriptor(service, Head(methodList), callingTypes)>>
                      \o rest)))

methods(service, em) == mapMethods(service, service.methodList, em)

ImportDescriptor(namespace, path) == [namespace |-> namespace, path |-> path]

dependencyImport(fd, dependency) ==
    IF dependency \in DOMAIN WellKnownTypesMap
    THEN ImportDescriptor(filePathToPseudoNamespace(dependency),
                          <<WellKnownTypesMap[dependency]>>)
    ELSE ImportDescriptor(filePathToPseudoNamespace(dependency),
                          <<getPathToRoot(fd.name)>>
                              \o replaceProtoSuffix(replaceProtoSuffix(dependency)))

\* filter(isUsed) then map() over the dependency list
RECURSIVE usedDependencies(_, _, _)
usedDependencies(fd, dependencyList, em) ==
    IF dependencyList = <<>> THEN Returned(<<>>)
    ELSE Try(isUsed(fd, filePathToPseudoNamespace(Head(dependencyList)), em),
             LAMBDA used :
         Try(usedDependencies(fd, Tail(dependencyList), em),
             LAMBDA rest :
         Returned(IF used
                  THEN <<dependencyImport(fd, Head(dependencyList))>> \o rest
                  ELSE rest)))

hostProto(fd) ==
    ImportDescriptor(filePathToPseudoNamespace(fd.name),
                     <<getPathToRoot(fd.name)>> \o replaceProtoSuffix(fd.name))

imports(fd, em) ==
    Try(usedDependencies(fd, fd.dependencyList, em),
        LAMBDA dependencies : Returned(<<hostProto(fd)>> \o dependencies))

\* --------------------------------------------------------- ServiceEmitter

\* mutant: the envelope names the method by the stub's function name
rpcRequestLiteralByFunctionName(service, method, params) ==
    <<"<JsonRPCRequest>{", "\"id\": \"1\"", ", ", "\"method\": \"",
      service.name, ".", method.functionName, "\"", ", ",
      "\"params\": ", params, ", ", "\"jsonrpc\": \"2.0\"", "}">>

\* the outgoing envelope literal both stubs build (the quotes of the url
\* template literal are left out of the text tokens)
rpcRequestLiteral(service, method, params) ==
    <<"<JsonRPCRequest>{", "\"id\": \"1\"", ", ", "\"method\": \"",
      service.name, ".", method.nameAsPascalCase, "\"", ", ",
      "\"params\": ", params, ", ", "\"jsonrpc\": \"2.0\"", "}">>

printUnaryStubMethodTypes(service, method) ==
    << Ln(2, <<method.functionName, "(">>),
       Ln(3, <<"requestMessage: ">> \o method.requestType \o <<",">>),
       Ln(3, <<"options?: {[key: string]: string}): Observable<">>
                 \o method.responseType \o <<"> {">>),
       Ln(3, <<"let rpcRequest = ">>
                 \o rpcRequestLiteral(service, method, "requestMessage")
                 \o <<";">>),
       Ln(3, <<"return this.call<">> \o method.responseType
                 \o <<">(${this.serviceHost}/rpc, rpcRequest, options);">>),
       Ln(2, <<"}">>),
       EmptyLn >>

printUnaryStubBatchMethodTypes(service, method) ==
    << Ln(2, <<method.functionName \o "Batch", "(">>),
       Ln(3, <<"requestMessages: ">> \o method.requestType \o <<"[],">>),
       Ln(3, <<"options?: {[key: string]: string}): Observable<">>
                 \o method.responseType \o <<"[]> {">>),
       Ln(3, <<"let rpcRequests = requestMessages.map((r) => {return ">>
                 \o rpcRequestLiteral(service, method, "r")
                 \o <<";});">>),
       Ln(3, <<"return this.callBatch<">> \o method.responseType
                 \o <<"[]>(${this.serviceHost}/rpc, rpcRequests, options);">>),
       Ln(2, <<"}">>),
       EmptyLn >>

\* mutant: only client streaming is tested
isUnaryByRequestOnly(method) == ~method.requestStream

\* the guard of the forEach body: jsonrpc cannot stream for now
isUnary(method) == ~method.requestStream /\ ~method.responseStream

RECURSIVE printStubs(_, _)
printStubs(service, methodList) ==
    IF methodList = <<>> THEN <<>>
    ELSE (IF isUnary(Head(methodList))
          THEN printUnaryStubMethodTypes(service, Head(methodList))
                   \o printUnaryStubBatchMethodTypes(service, Head(methodList))
          ELSE <<>>)
         \o printStubs(service, Tail(methodList))

ClientHead ==
    << Ln(1, <<"export class Client {">>),
       Ln(2, <<"private serviceHost: string;">>),
       EmptyLn,
       Ln(2, <<"constructor(serviceHost: string, private http: HttpClient) {">>),
       Ln(3, <<"this.serviceHost = serviceHost;">>),
       Ln(2, <<"}">>),
       EmptyLn,
       Ln(2, <<"call<T>(url: string, request: any, options?: {[key: string]: string}): Observable<T> {">>),
       Ln(3, <<"return this.http.post<JsonRPCResponse>(url, request, options).pipe(map(response => { return response.result; }), catchError(error => { return throwError(error); }));">>),
       Ln(2, <<"}">>),
       EmptyLn,
       Ln(2, <<"callBatch<T>(url: string, request: any, options?: {[key: string]: string}): Observable<T> {">>),
       Ln(3, <<"// @ts-ignore">>),
       Ln(3, <<"return this.http.post<JsonRPCResponse[]>(url, request, options).pipe(map(response => { return response.map((r) => { return <T>r.result; }) }), catchError(error => { return throwError(error); }));">>),
       Ln(2, <<"}">>),
       EmptyLn >>

\* service: [name, methods], the RPCDescriptor with its methods resolved
printServiceStubTypes(service) ==
    ClientHead \o printStubs(service, service.methods) \o <<Ln(1, <<"}">>)>>

importLine(importDescriptor) ==
    Ln(0, <<"import * as ", importDescriptor.namespace, " from \"">>
              \o importDescriptor.path \o <<"\";">>)

methodTypeDefinition(method) ==
    << Ln(1, <<"type ", method.serviceName, method.nameAsPascalCase, " = {">>),
       Ln(2, <<"readonly methodName: string;">>),
       Ln(2, <<"readonly service: typeof ", method.serviceName, ";">>),
       Ln(2, <<"readonly requestType: typeof ">> \o method.requestType \o <<";">>),
       Ln(2, <<"readonly responseType: typeof ">> \o method.responseType \o <<";">>),
       Ln(1, <<"};">>),
       EmptyLn >>

staticMethodField(method) ==
    Ln(2, <<"static readonly ", method.nameAsPascalCase, ": ",
            method.serviceName, method.nameAsPascalCase, ";">>)

serviceTypes(service) ==
    Flatten([i \in DOMAIN service.methods |-> methodTypeDefinition(service.methods[i])])
    \o << Ln(1, <<"class ", service.name, " {">>),
          Ln(2, <<"static readonly serviceName: string;">>) >>
    \o [i \in DOMAIN service.methods |-> staticMethodField(service.methods[i])]
    \o << Ln(1, <<"}">>), EmptyLn >>

\* mutant: the blank line after the header is not printed
HeaderWithoutBlankLine(fd) ==
    << Ln(0, <<"// package: ">> \o fd.package),
       Ln(0, <<"// file: ">> \o fd.name) >>

Header(fd) ==
    << Ln(0, <<"// package: ">> \o fd.package),
       Ln(0, <<"// file: ">> \o fd.name),
       EmptyLn >>

LibraryImports ==
    << Ln(0, <<"import {HttpClient} from \"@angular/common/http\";">>),
       Ln(0, <<"import {Observable, throwError} from \"rxjs\";">>),
       Ln(0, <<"import {catchError, map} from \"rxjs/operators\";">>),
       EmptyLn >>

EnvelopeTypes ==
    << Ln(1, <<"class JsonRPCRequest {">>),
       Ln(2, <<"public jsonrpc: string;">>),
       Ln(2, <<"public id: string;">>),
       Ln(2, <<"public method: string;">>),
       Ln(2, <<"public params: any;">>),
       Ln(1, <<"}">>),
       EmptyLn,
       Ln(1, <<"type JsonRPCResponse = {">>),
       Ln(2, <<"readonly result: any;">>),
       Ln(2, <<"readonly id: string;">>),
       Ln(2, <<"readonly jsonrpc: string;">>),
       Ln(1, <<"}">>),
       EmptyLn >>

\* mutant: the namespace is named after the last service
namespaceOfLastService(services) ==
    Ln(0, <<"export namespace ", services[Len(services)].name, " {">>)

\* line 174: the namespace block is opened under the first service's name
namespaceOpen(services) ==
    Ln(0, <<"export namespace ", services[1].name, " {">>)

\* RPCServiceDescriptor.services with every service's methods getter read
RECURSIVE resolveServices(_, _)
resolveServices(serviceList, em) ==
    IF serviceList = <<>> THEN Returned(<<>>)
    ELSE Try(methods(Head(serviceList), em),
             LAMBDA ms :
         Try(resolveServices(Tail(serviceList), em),
             LAMBDA rest :
         Returned(<<[name |-> Head(serviceList).name, methods |-> ms]>> \o rest)))

\* lines 164-224: the text of a file that declares a service
serviceFileText(fd, imps, services) ==
    Header(fd)
    \o [i \in DOMAIN imps |-> importLine(imps[i])]
    \o LibraryImports
    \o <<namespaceOpen(services)>>
    \o EnvelopeTypes
    \o Flatten([i \in DOMAIN services |-> serviceTypes(services[i])])
    \o Flatten([i \in DOMAIN services |->
                    printServiceStubTypes(services[i]) \o <<EmptyLn>>])
    \o <<Ln(0, <<"}">>)>>

generateTypescriptDefinition(fd, em) ==
    IF Len(fd.serviceList) = 0
    THEN Returned(Header(fd))
    ELSE Try(imports(fd, em),
             LAMBDA imps :
         Try(resolveServices(fd.serviceList, em),
             LAMBDA services :
         Returned(serviceFileText(fd, imps, services))))

createFile(output, filename) == [name |-> filename, content |-> output]

generateJSONRPCService(filename, fd, em) ==
    Try(generateTypescriptDefinition(fd, em),
        LAMBDA output :
            Returned(<<createFile(output, filename \o "_service.ts")>>))

\* ---------------------------------------------------------- MessageEmitter

LABEL_OPTIONAL == "LABEL_OPTIONAL"
LABEL_REQUIRED == "LABEL_REQUIRED"
LABEL_REPEATED == "LABEL_REPEATED"

isProto2(fd) == fd.syntax = "" \/ fd.syntax = "proto2"

\* mutant: the map-entry flag is never seen
isMapEntryNever(messageOptions) == FALSE

isMapEntry(messageOptions) ==
    messageOptions # Undefined /\ messageOptions[1].mapEntry

BytesUnion == <<"Uint8Array | string">>

\* a declared member: name, optional marker, type expression
Member(name, marker, type) == <<name, marker, ": ">> \o type \o <<";">>

\* lines 52-61: the member of a field whose message type is a map entry
mapMember(fileName, em, field, fieldMessageType) ==
    IF fieldMessageType.mapFieldOptions = Undefined
    THEN Thrown(<<"TypeError: mapFieldOptions is undefined">>)
    ELSE LET keyTuple == fieldMessageType.mapFieldOptions[1].key
             keyTypeName == getFieldType(keyTuple[1], keyTuple[2], fileName, em)
             valueTuple == fieldMessageType.mapFieldOptions[1].value
             valueType == valueTuple[1]
             valueTypeName == getFieldType(valueType, valueTuple[2], fileName, em)
         IN  IF keyTypeName.thrown THEN keyTypeName
             ELSE IF valueTypeName.thrown THEN valueTypeName
             ELSE Returned(
                 [isMap |-> TRUE,
                  member |-> Member(field.name, "",
                      <<"Map<">> \o keyTypeName.value \o <<", ">>
                          \o (IF valueType = BYTES_TYPE THEN BytesUnion
                              ELSE valueTypeName.value)
                          \o <<">">>)])

ExportType(type) == Returned([isMap |-> FALSE, exportType |-> type])

\* lines 82-95: a per-field representation override before the default table
scalarExportType(field) ==
    IF field.options # Undefined /\ field.options[1].jstype # Undefined
    THEN CASE field.options[1].jstype[1] = "JS_NUMBER" -> <<"number">>
           [] field.options[1].jstype[1] = "JS_STRING" -> <<"string">>
           [] OTHER -> getTypeName(field.type)
    ELSE getTypeName(field.type)

\* mutant: a type without an export is rendered under its full name, no throw
resolveExportTypeUnchecked(fileName, em, field) ==
    LET type == field.type
        fullTypeName == slice1(field.typeName)
    IN  IF type = MESSAGE_TYPE /\ hasMessage(em, fullTypeName)
        THEN LET fieldMessageType == getMessage(em, fullTypeName)
                 withinNamespace ==
                     withinNamespaceFromExportEntry(fullTypeName, fieldMessageType)
             IN  IF isMapEntry(fieldMessageType.messageOptions)
                 THEN mapMember(fileName, em, field, fieldMessageType)
                 ELSE IF fieldMessageType.fileName = fileName
                 THEN ExportType(withinNamespace)
                 ELSE ExportType(
                     <<filePathToPseudoNamespace(fieldMessageType.fileName), ".">>
                         \o withinNamespace)
        ELSE IF type = ENUM_TYPE /\ hasEnum(em, fullTypeName)
        THEN LET fieldEnumType == getEnum(em, fullTypeName)
                 withinNamespace ==
                     withinNamespaceFromExportEntry(fullTypeName, fieldEnumType)
             IN  IF fieldEnumType.fileName = fileName
                 THEN ExportType(withinNamespace)
                 ELSE ExportType(
                     <<filePathToPseudoNamespace(fieldEnumType.fileName), ".">>
                         \o withinNamespace)
        ELSE IF type \in {MESSAGE_TYPE, ENUM_TYPE}
        THEN ExportType(fullTypeName)
        ELSE ExportType(scalarExportType(field))

\* lines 41-96: the type expression of a field, or the map member, or a throw
resolveExportType(fileName, em, field) ==
    LET type == field.type
        fullTypeName == slice1(field.typeName)
    IN  IF type = MESSAGE_TYPE
        THEN IF ~hasMessage(em, fullTypeName)
             THEN Thrown(<<"No message export for: ">> \o fullTypeName)
             ELSE LET fieldMessageType == getMessage(em, fullTypeName)
                      withinNamespace ==
                          withinNamespaceFromExportEntry(fullTypeName, fieldMessageType)
                  IN  IF isMapEntry(fieldMessageType.messageOptions)
                      THEN mapMember(fileName, em, field, fieldMessageType)
                      ELSE IF fieldMessageType.fileName = fileName
                      THEN ExportType(withinNamespace)
                      ELSE ExportType(
                          <<filePathToPseudoNamespace(fieldMessageType.fileName), ".">>
                              \o withinNamespace)
        ELSE IF type = ENUM_TYPE
        THEN IF ~hasEnum(em, fullTypeName)
             THEN Thrown(<<"No enum export for: ">> \o fullTypeName)
             ELSE LET fieldEnumType == getEnum(em, fullTypeName)
                      withinNamespace ==
                          withinNamespaceFromExportEntry(fullTypeName, fieldEnumType)
                  IN  IF fieldEnumType.fileName = fileName
                      THEN ExportType(withinNamespace)
                      ELSE ExportType(
                          <<filePathToPseudoNamespace(fieldEnumType.fileName), ".">>
                              \o withinNamespace)
        ELSE ExportType(scalarExportType(field))

\* lines 109-118
canBeUndefined(field, fd) ==
    IF field.type = MESSAGE_TYPE
    THEN ~isProto2(fd) \/ field.label = LABEL_OPTIONAL
    ELSE isProto2(fd)

\* mutant: a byte-sequence field is declared with its resolved type
fieldMemberBytesAsResolved(field, exportType, fd) ==
    IF field.label = LABEL_REPEATED
    THEN Member(field.name, "", <<"Array<">> \o exportType \o <<">">>)
    ELSE Member(normaliseFieldObjectName(field.name),
                IF canBeUndefined(field, fd) THEN "?" ELSE "",
                exportType)

\* mutant: a repeated field is declared under the normalised name
fieldMemberNormalisingRepeated(field, exportType, fd) ==
    IF field.label = LABEL_REPEATED
    THEN IF field.type = BYTES_TYPE
         THEN Member(normaliseFieldObjectName(field.name), "",
                     <<"Array<">> \o BytesUnion \o <<">">>)
         ELSE Member(normaliseFieldObjectName(field.name), "",
                     <<"Array<">> \o exportType \o <<">">>)
    ELSE IF field.type = BYTES_TYPE
         THEN Member(field.name, "", BytesUnion)
         ELSE Member(normaliseFieldObjectName(field.name),
                     IF canBeUndefined(field, fd) THEN "?" ELSE "",
                     exportType)

\* lines 98-122: the member of a field that is not a map
fieldMember(field, exportType, fd) ==
    IF field.label = LABEL_REPEATED
    THEN IF field.type = BYTES_TYPE
         THEN Member(field.name, "", <<"Array<">> \o BytesUnion \o <<">">>)
         ELSE Member(field.name, "", <<"Array<">> \o exportType \o <<">">>)
    ELSE IF field.type = BYTES_TYPE
         THEN Member(field.name, "", BytesUnion)
         ELSE Member(normaliseFieldObjectName(field.name),
                     IF canBeUndefined(field, fd) THEN "?" ELSE "",
                     exportType)

\* the body of getFieldList().forEach: the text of the line it prints
printField(fileName, em, field, fd) ==
    LET resolved == resolveExportType(fileName, em, field)
    IN  IF resolved.thrown THEN resolved
        ELSE IF resolved.value.isMap THEN Returned(resolved.value.member)
        ELSE Returned(fieldMember(field, resolved.value.exportType, fd))

\* getFieldList().forEach: the lines printed until the list ends or a field throws
RECURSIVE printFields(_, _, _, _, _)
printFields(fileName, em, fieldList, indentLevel, fd) ==
    IF fieldList = <<>> THEN [thrown |-> FALSE, lines |-> <<>>]
    ELSE LET first == printField(fileName, em, Head(fieldList), fd)
             rest == printFields(fileName, em, Tail(fieldList), indentLevel, fd)
         IN  IF first.thrown
             THEN [thrown |-> TRUE, error |-> first.error, lines |-> <<>>]
             ELSE [rest EXCEPT !.lines = <<Ln(indentLevel + 1, first.value)>> \o @]

\* lines 29-40: the fields of the oneof with the given index, in field order
oneOfGroup(fieldList, index) ==
    SelectSeq(fieldList,
              LAMBDA field : field.oneofIndex # Undefined /\ field.oneofIndex[1] = index)

printEnum(enumType, indentLevel) ==
    << Ln(indentLevel, <<"export enum ", enumType.name, " {">>),
       Ln(indentLevel, <<"}">>) >>

printOneOfDecl(oneOfDecl, oneOfFields, indentLevel) ==
    << Ln(indentLevel, <<"export enum ", oneOfDecl.name, "Case {">>
                           \o [i \in DOMAIN oneOfFields |-> oneOfFields[i].name]),
       Ln(indentLevel, <<"}">>) >>

printExtension(fileName, em, extension, indentLevel) ==
    LET fieldType == getFieldType(extension.type, slice1(extension.typeName),
                                  fileName, em)
    IN  IF fieldType.thrown THEN fieldType
        ELSE Returned(
            << EmptyLn,
               Ln(indentLevel + 1, <<"const ", extension.name,
                                     ": jspb.ExtensionFieldInfo<">>
                                       \o fieldType.value \o <<">;">>) >>)

RECURSIVE printExtensions(_, _, _, _)
printExtensions(fileName, em, extensionList, indentLevel) ==
    IF extensionList = <<>> THEN [thrown |-> FALSE, lines |-> <<>>]
    ELSE LET first == printExtension(fileName, em, Head(extensionList), indentLevel)
             rest == printExtensions(fileName, em, Tail(extensionList), indentLevel)
         IN  IF first.thrown
             THEN [thrown |-> TRUE, error |-> first.error, lines |-> <<>>]
             ELSE [rest EXCEPT !.lines = first.value \o @]

\* printMessage and its getNestedTypeList().forEach.  A call yields
\* [thrown, value | error, printer]: printer is the text its own Printer held
\* when the call was left, value is what getOutput() returned.
RECURSIVE printMessage(_, _, _, _, _)
RECURSIVE printNested(_, _, _, _, _)

printNested(fileName, em, nestedTypeList, indentLevel, fd) ==
    IF nestedTypeList = <<>> THEN [thrown |-> FALSE, lines |-> <<>>]
    ELSE LET msgOutput == printMessage(fileName, em, Head(nestedTypeList),
                                       indentLevel + 1, fd)
             rest == printNested(fileName, em, Tail(nestedTypeList), indentLevel, fd)
         IN  IF msgOutput.thrown
             THEN [thrown |-> TRUE, error |-> msgOutput.error, lines |-> <<>>]
             ELSE [rest EXCEPT !.lines = msgOutput.value \o @]

printMessage(fileName, em, md, indentLevel, fd) ==
    IF isMapEntry(md.options)
    THEN [thrown |-> FALSE, value |-> <<>>, printer |-> <<>>]
    ELSE LET head == <<Ln(indentLevel, <<"export class ", md.name, " {">>)>>
             fields == printFields(fileName, em, md.fieldList, indentLevel, fd)
             nested == printNested(fileName, em, md.nestedTypeList, indentLevel, fd)
             enums == Flatten([i \in DOMAIN md.enumTypeList |->
                                  printEnum(md.enumTypeList[i], indentLevel + 1)])
             oneofs == Flatten([i \in DOMAIN md.oneofDeclList |->
                                   printOneOfDecl(md.oneofDeclList[i],
                                                  oneOfGroup(md.fieldList, i - 1),
                                                  indentLevel + 1)])
             extensions == printExtensions(fileName, em, md.extensionList, indentLevel)
             Left(error, text) ==
                 [thrown |-> TRUE, error |-> error, printer |-> text]
         IN  IF fields.thrown
             THEN Left(fields.error, head \o fields.lines)
             ELSE IF nested.thrown
             THEN Left(nested.error, head \o fields.lines \o nested.lines)
             ELSE IF extensions.thrown
             THEN Left(extensions.error,
                       head \o fields.lines \o nested.lines \o enums \o oneofs
                            \o extensions.lines)
             ELSE LET text == head \o fields.lines \o nested.lines \o enums
                                   \o oneofs \o extensions.lines
                                   \o <<Ln(indentLevel, <<"}">>)>>
                  IN  [thrown |-> FALSE, value |-> text, printer |-> text]

\* ------------------------------------------- inputs of service generation

Method(name, inputType, outputType, clientStreaming, serverStreaming) ==
    [name |-> name, inputType |-> inputType, outputType |-> outputType,
     clientStreaming |-> clientStreaming, serverStreaming |-> serverStreaming]

TReq == <<".", "hp", ".", "Req">>
TA == <<".", "pa", ".", "A">>
TInner == <<".", "pb", ".", "Outer", ".", "Inner">>
TEmpty == <<".", "google", ".", "protobuf", ".", "Empty">>
TGone == <<".", "px", ".", "Gone">>

MethodPool ==
    { Method("GetUser", TReq, TA, FALSE, FALSE),
      Method("delete", TInner, TReq, FALSE, FALSE),
      Method("Ping", TEmpty, TReq, FALSE, FALSE),
      Method("List", TReq, TReq, FALSE, TRUE),
      Method("Watch", TA, TInner, TRUE, FALSE),
      Method("Chat", TReq, TReq, TRUE, TRUE),
      Method("Find", TReq, TGone, FALSE, FALSE) }

ServiceNames == <<"UserService", "Admin", "Audit", "Billing">>

DependencyFiles == {DepA, DepB, WellKnownEmpty}

HostMessageLists ==
    {<<[name |-> "Req"]>>, <<[name |-> "Req"], [name |-> "Empty"]>>}

\* owner[i] is the service that declares the i-th method of the file
Owners(k, n) ==
    {owner \in [1..k -> 1..n] : \A i, j \in 1..k : i <= j => owner[i] <= owner[j]}

MethodsOf(flat, owner, s) ==
    LET before == Cardinality({i \in DOMAIN flat : owner[i] < s})
        mine == Cardinality({i \in DOMAIN flat : owner[i] = s})
    IN  SubSeq(flat, before + 1, before + mine)

ServiceList(flat, owner, n) ==
    [s \in 1..n |-> [name |-> ServiceNames[s],
                     methodList |-> MethodsOf(flat, owner, s)]]

\* the methods of a service have distinct names
WellFormedServices(sl) ==
    \A s \in DOMAIN sl : \A i, j \in DOMAIN sl[s].methodList :
        sl[s].methodList[i].name = sl[s].methodList[j].name => i = j

ServiceFileDescriptor(deps, msgs, sl) ==
    [name |-> HostFile, package |-> <<"hp">>, syntax |-> "proto3",
     dependencyList |-> deps, messageTypeList |-> msgs, serviceList |-> sl]

\* ExportMap.addFileDescriptor over the host file and the dependencies
ServiceExportMap(fd) ==
    [messageMap |->
         [n \in {fd.package \o <<".", fd.messageTypeList[i].name>>
                    : i \in DOMAIN fd.messageTypeList}
             |-> MessageEntry(fd.package, fd.name)]
         @@ DependencyMessages,
     enumMap |-> DependencyEnums]

NoMessage == [name |-> "", fieldList |-> <<>>]
NoResult == [kind |-> "none"]

Outcome(r) ==
    IF r.thrown THEN [kind |-> "throw", error |-> r.error]
    ELSE [kind |-> "return", value |-> r.value]

\* --------------------------------------------- service generation, as run

InitService ==
    /\ phase = "input"
    /\ \E deps \in InjSeqsUpTo(DependencyFiles, MaxDeps),
          msgs \in HostMessageLists,
          n \in 0..MaxServices,
          flat \in SeqsUpTo(MethodPool, MaxMethods) :
          \E owner \in Owners(Len(flat), n) :
              /\ WellFormedServices(ServiceList(flat, owner, n))
              /\ fileDescriptor =
                     ServiceFileDescriptor(deps, msgs, ServiceList(flat, owner, n))
    /\ exportMap = ServiceExportMap(fileDescriptor)
    /\ messageDescriptor = NoMessage
    /\ result = NoResult
    /\ printer = <<>>

GenerateJSONRPCService ==
    /\ phase = "input"
    /\ phase' = "done"
    /\ result' = Outcome(generateJSONRPCService(Join(Stem(fileDescriptor.name), "/"),
                                                 fileDescriptor, exportMap))
    /\ UNCHANGED <<fileDescriptor, exportMap, messageDescriptor, printer>>

NextService == GenerateJSONRPCService

SpecService == InitService /\ [][NextService]_vars

\* ----------------------------------------------- inputs of message printing

TOuter == <<".", "hp", ".", "Outer">>
TColor == <<".", "hp", ".", "Outer", ".", "Color">>
TKind == <<".", "pa", ".", "Kind">>
TLost == <<".", "px", ".", "Lost">>

JsType(t) == Defined([jstype |-> Defined(t)])
NoJsType == Defined([jstype |-> Undefined])

Field(name, type, typeName, label, options, oneofIndex) ==
    [kind |-> "field", name |-> name, type |-> type, typeName |-> typeName,
     label |-> label, options |-> options, oneofIndex |-> oneofIndex]

\* a map<K, V> field as written in the schema; the compiler front end turns it
\* into a repeated field of a synthetic nested entry message
MapField(name, entryName, keyType, valueType, valueTypeName) ==
    [kind |-> "map", name |-> name, entryName |-> entryName,
     keyType |-> keyType, valueType |-> valueType, valueTypeName |-> valueTypeName]

RequiredFields ==
    { Field("count", "TYPE_INT64", <<>>, LABEL_REQUIRED, Undefined, Undefined),
      Field("parent", MESSAGE_TYPE, TOuter, LABEL_REQUIRED, Undefined, Undefined) }

AnyDialectFields ==
    { Field("id", "TYPE_INT64", <<>>, LABEL_OPTIONAL, NoJsType, Undefined),
      Field("class", "TYPE_INT64", <<>>, LABEL_OPTIONAL, JsType("JS_STRING"), Defined(0)),
      Field("delete", "TYPE_STRING", <<>>, LABEL_REPEATED, Undefined, Undefined),
      Field("data", BYTES_TYPE, <<>>, LABEL_OPTIONAL, Undefined, Defined(0)),
      Field("delete", BYTES_TYPE, <<>>, LABEL_OPTIONAL, JsType("JS_STRING"), Undefined),
      Field("chunks", BYTES_TYPE, <<>>, LABEL_REPEATED, JsType("JS_NUMBER"), Undefined),
      Field("kind", ENUM_TYPE, TKind, LABEL_OPTIONAL, Undefined, Undefined),
      Field("color", ENUM_TYPE, TColor, LABEL_REPEATED, Undefined, Undefined),
      Field("lost", ENUM_TYPE, TLost, LABEL_OPTIONAL, Undefined, Undefined),
      Field("self", MESSAGE_TYPE, TOuter, LABEL_OPTIONAL, Undefined, Undefined),
      Field("others", MESSAGE_TYPE, TA, LABEL_REPEATED, Undefined, Undefined),
      Field("gone", MESSAGE_TYPE, TGone, LABEL_OPTIONAL, Undefined, Undefined),
      MapField("blobs", "BlobsEntry", "TYPE_STRING", BYTES_TYPE, <<>>),
      MapField("class", "ClassEntry", "TYPE_INT32", MESSAGE_TYPE, TOuter),
      MapField("ghosts", "GhostsEntry", "TYPE_STRING", MESSAGE_TYPE, TGone) }

FieldPool(syntax) ==
    IF syntax = "proto3" THEN AnyDialectFields
    ELSE AnyDialectFields \cup RequiredFields

Syntaxes == {"", "proto2", "proto3"}

LevelNames == <<"Outer", "Mid", "Leaf", "Tip", "End">>

\* the dotted name of the message at a level of the nesting chain
RECURSIVE FullName(_)
FullName(level) ==
    IF level = 1 THEN <<"hp", ".", LevelNames[1]>>
    ELSE FullName(level - 1) \o <<".", LevelNames[level]>>

\* the FieldDescriptorProto of a schema field declared in the message at level
FieldDescriptor(f, level) ==
    IF f.kind = "map"
    THEN Field(f.name, MESSAGE_TYPE, <<".">> \o FullName(level) \o <<".", f.entryName>>,
               LABEL_REPEATED, Undefined, Undefined)
    ELSE f

\* the synthetic entry message of a map field
EntryDescriptor(f) ==
    [name |-> f.entryName,
     options |-> Defined([mapEntry |-> TRUE]),
     fieldList |->
         << Field("key", f.keyType, <<>>, LABEL_OPTIONAL, Undefined, Undefined),
            Field("value", f.valueType, f.valueTypeName, LABEL_OPTIONAL,
                  Undefined, Undefined) >>,
     nestedTypeList |-> <<>>, enumTypeList |-> <<>>, oneofDeclList |-> <<>>,
     extensionList |-> <<>>]

TopExtension ==
    Field("ext", "TYPE_INT32", <<>>, LABEL_OPTIONAL, Undefined, Undefined)

\* the DescriptorProto at a level of a chain of depth nested messages whose
\* schema fields are flat, the i-th declared at level owner[i]
RECURSIVE Descriptor(_, _, _, _, _)
Descriptor(level, depth, flat, owner, syntax) ==
    LET mine == MethodsOf(flat, owner, level)
        maps == SelectSeq(mine, LAMBDA f : f.kind = "map")
        fieldList == [i \in DOMAIN mine |-> FieldDescriptor(mine[i], level)]
    IN  [name |-> LevelNames[level],
         options |-> IF level = depth THEN Undefined
                     ELSE Defined([mapEntry |-> FALSE]),
         fieldList |-> fieldList,
         nestedTypeList |->
             [i \in DOMAIN maps |-> EntryDescriptor(maps[i])]
             \o (IF level < depth
                 THEN <<Descriptor(level + 1, depth, flat, owner, syntax)>>
                 ELSE <<>>),
         enumTypeList |-> IF level = 1 THEN <<[name |-> "Color"]>> ELSE <<>>,
         oneofDeclList |->
             IF \E i \in DOMAIN fieldList : fieldList[i].oneofIndex # Undefined
             THEN <<[name |-> "choice"]>> ELSE <<>>,
         extensionList |->
             IF level = 1 /\ syntax = "proto2" THEN <<TopExtension>> ELSE <<>>]

\* the fields of a message have distinct names
WellFormedFields(flat, owner) ==
    \A i, j \in DOMAIN flat :
        (owner[i] = owner[j] /\ flat[i].name = flat[j].name) => i = j

MessageFileDescriptor(syntax, depth, flat, owner) ==
    [name |-> HostFile, package |-> <<"hp">>, syntax |-> syntax,
     dependencyList |-> <<DepA>>, serviceList |-> <<>>,
     messageTypeList |-> <<Descriptor(1, depth, flat, owner, syntax)>>]

\* ExportMap.exportNested: the message, then its nested messages and enums
RECURSIVE exportNested(_, _, _)
exportNested(scope, fd, message) ==
    LET entryName == scope \o <<".", message.name>>
        messageEntry ==
            [pkg |-> fd.package, fileName |-> fd.name,
             messageOptions |-> message.options,
             mapFieldOptions |->
                 IF isMapEntry(message.options)
                 THEN Defined(
                     [key |-> <<message.fieldList[1].type,
                                slice1(message.fieldList[1].typeName)>>,
                      value |-> <<message.fieldList[2].type,
                                  slice1(message.fieldList[2].typeName)>>])
                 ELSE Undefined]
        RECURSIVE nestedExports(_)
        nestedExports(list) ==
            IF list = <<>>
            THEN [messageMap |-> <<>>, enumMap |-> <<>>]
            ELSE LET first == exportNested(entryName, fd, Head(list))
                     rest == nestedExports(Tail(list))
                 IN  [messageMap |-> first.messageMap @@ rest.messageMap,
                      enumMap |-> first.enumMap @@ rest.enumMap]
        below == nestedExports(message.nestedTypeList)
    IN  [messageMap |-> (entryName :> messageEntry) @@ below.messageMap,
         enumMap |->
             [n \in {entryName \o <<".", message.enumTypeList[i].name>>
                         : i \in DOMAIN message.enumTypeList}
                 |-> EnumEntry(fd.package, fd.name)]
             @@ below.enumMap]

\* ExportMap.addFileDescriptor over the host file and the dependencies
MessageExportMap(fd) ==
    LET host == exportNested(fd.package, fd, fd.messageTypeList[1])
    IN  [messageMap |-> host.messageMap @@ DependencyMessages,
         enumMap |-> host.enumMap @@ DependencyEnums]

\* ------------------------------------------------ message printing, as run

InitMessage ==
    /\ phase = "input"
    /\ \E syntax \in Syntaxes, depth \in 1..MaxDepth :
          \E flat \in InjSeqsUpTo(FieldPool(syntax), MaxFields) :
              \E owner \in Owners(Len(flat), depth) :
                  /\ WellFormedFields(flat, owner)
                  /\ fileDescriptor = MessageFileDescriptor(syntax, depth, flat, owner)
    /\ exportMap = MessageExportMap(fileDescriptor)
    /\ messageDescriptor = fileDescriptor.messageTypeList[1]
    /\ result = NoResult
    /\ printer = <<>>

PrintMessage ==
    /\ phase = "input"
    /\ phase' = "done"
    /\ LET r == printMessage(fileDescriptor.name, exportMap, messageDescriptor,
                             0, fileDescriptor)
       IN  /\ result' = Outcome(r)
           /\ printer' = r.printer
    /\ UNCHANGED <<fileDescriptor, exportMap, messageDescriptor>>

NextMessage == PrintMessage

SpecMessage == InitMessage /\ [][NextMessage]_vars

\* ===================================================== service generation

ServiceReturned == phase = "done" /\ result.kind = "return"

\* the content of the one generated file
ServiceText == result.value[1].content

LineIndices(text, P(_)) == {i \in DOMAIN text : P(text[i])}

IsImportOf(line, namespace) ==
    /\ Len(line.text) >= 2
    /\ line.text[1] = "import * as "
    /\ line.text[2] = namespace

AllMethods(fd) ==
    Flatten([s \in DOMAIN fd.serviceList |-> fd.serviceList[s].methodList])

\* the pseudo-namespace of the file that defines a message type, by the export map
DefiningNamespace(typeName) ==
    filePathToPseudoNamespace(getMessage(exportMap, slice1(typeName)).fileName)

TypeDefinedIn(typeName, dependency) ==
    /\ hasMessage(exportMap, slice1(typeName))
    /\ DefiningNamespace(typeName) = filePathToPseudoNamespace(dependency)

ReferencesDependency(fd, dependency) ==
    \E i \in DOMAIN AllMethods(fd) :
        \/ TypeDefinedIn(AllMethods(fd)[i].inputType, dependency)
        \/ TypeDefinedIn(AllMethods(fd)[i].outputType, dependency)

ImportsDependency(text, dependency) ==
    \E i \in DOMAIN text :
        IsImportOf(text[i], filePathToPseudoNamespace(dependency))

\* C1: in the text generated for a file with at least one service, the import
\* line of a dependency's pseudo-namespace is present exactly when some method
\* of some service has a request or response type defined in that namespace.
C1_ImportIffUsed ==
    (ServiceReturned /\ Len(fileDescriptor.serviceList) >= 1) =>
        \A d \in DOMAIN fileDescriptor.dependencyList :
            ImportsDependency(ServiceText, fileDescriptor.dependencyList[d])
                <=> ReferencesDependency(fileDescriptor,
                                         fileDescriptor.dependencyList[d])

\* a dependency used only through a response type is imported while another
\* dependency of the same file is elided
C1_Witness ==
    /\ ServiceReturned
    /\ Len(fileDescriptor.serviceList) >= 1
    /\ \E d, e \in DOMAIN fileDescriptor.dependencyList :
        /\ ImportsDependency(ServiceText, fileDescriptor.dependencyList[d])
        /\ \A i \in DOMAIN AllMethods(fileDescriptor) :
               ~TypeDefinedIn(AllMethods(fileDescriptor)[i].inputType,
                              fileDescriptor.dependencyList[d])
        /\ ~ImportsDependency(ServiceText, fileDescriptor.dependencyList[e])

IsClientLine(line) == line = Ln(1, <<"export class Client {">>)

\* the lines of the s-th Client class: from its opening line up to the next one
ClientBlock(text, s) ==
    LET opens == LineIndices(text, IsClientLine)
        from == CHOOSE i \in opens : Cardinality({j \in opens : j < i}) = s - 1
        later == {j \in opens : j > from}
        to == IF later = {} THEN Len(text)
              ELSE (CHOOSE j \in later : \A k \in later : j <= k) - 1
    IN  SubSeq(text, from, to)

IsStubHead(line) ==
    line.indent = 2 /\ Len(line.text) = 2 /\ line.text[2] = "("

\* the names of the stub functions of a Client class, in the order printed
StubNames(block) ==
    LET heads == SelectSeq(block, IsStubHead)
    IN  [i \in DOMAIN heads |-> heads[i].text[1]]

Streams(method) == method.clientStreaming \/ method.serverStreaming

RECURSIVE ExpectedStubNames(_)
ExpectedStubNames(methodList) ==
    IF methodList = <<>> THEN <<>>
    ELSE (IF Streams(Head(methodList)) THEN <<>>
          ELSE << normaliseFieldObjectName(Head(methodList).name),
                  normaliseFieldObjectName(Head(methodList).name) \o "Batch" >>)
         \o ExpectedStubNames(Tail(methodList))

\* C2: the stubs of a service's Client class are, in the declared order of its
\* methods, one unary and one batch stub for each method that is neither
\* client- nor server-streaming, and nothing for a streaming method; a
\* streaming method raises no error.
C2_StubsIffNotStreaming ==
    /\ ServiceReturned /\ Len(fileDescriptor.serviceList) >= 1 =>
           \A s \in DOMAIN fileDescriptor.serviceList :
               StubNames(ClientBlock(ServiceText, s))
                   = ExpectedStubNames(fileDescriptor.serviceList[s].methodList)
    /\ (phase = "done" /\ result.kind = "throw") =>
           \E i \in DOMAIN AllMethods(fileDescriptor) :
               \/ ~hasMessage(exportMap, slice1(AllMethods(fileDescriptor)[i].inputType))
               \/ ~hasMessage(exportMap, slice1(AllMethods(fileDescriptor)[i].outputType))

\* a service with a server-streaming method before a sibling that is not streaming
C2_Witness ==
    /\ ServiceReturned
    /\ \E s \in DOMAIN fileDescriptor.serviceList :
        LET ml == fileDescriptor.serviceList[s].methodList
        IN  /\ Len(ml) = 2
            /\ ml[1].serverStreaming /\ ~ml[1].clientStreaming
            /\ ~Streams(ml[2])
            /\ Len(StubNames(ClientBlock(ServiceText, s))) = 2

\* C3: for a file with no service the generated text is the two header comment
\* lines and one blank line, whatever its dependencies and messages are, and
\* nothing is thrown.
C3_EmptyFileHeaderOnly ==
    (phase = "done" /\ Len(fileDescriptor.serviceList) = 0) =>
        /\ result.kind = "return"
        /\ ServiceText =
               << [indent |-> 0, text |-> <<"// package: ">> \o fileDescriptor.package],
                  [indent |-> 0, text |-> <<"// file: ">> \o fileDescriptor.name],
                  [indent |-> 0, text |-> <<>>] >>

\* a file with no service, two dependencies and two messages was generated
C3_Witness ==
    /\ phase = "done"
    /\ Len(fileDescriptor.serviceList) = 0
    /\ Len(fileDescriptor.dependencyList) = 2
    /\ Len(fileDescriptor.messageTypeList) = 2
    /\ Len(ServiceText) = 3

IsEnvelopeLine(line) ==
    /\ line.indent = 3
    /\ Len(line.text) >= 1
    /\ line.text[1] \in {"let rpcRequest = ",
                         "let rpcRequests = requestMessages.map((r) => {return "}

\* what a stub prints of its head and of the envelope it builds
StubFacts(block) ==
    SelectSeq(block, LAMBDA line : IsStubHead(line) \/ IsEnvelopeLine(line))

ExpectedEnvelope(serviceName, methodName, params) ==
    << "<JsonRPCRequest>{", "\"id\": \"1\"", ", ", "\"method\": \"",
       serviceName, ".", methodName, "\"", ", ",
       "\"params\": ", params, ", ", "\"jsonrpc\": \"2.0\"", "}" >>

RECURSIVE ExpectedStubFacts(_, _)
ExpectedStubFacts(serviceName, methodList) ==
    IF methodList = <<>> THEN <<>>
    ELSE LET m == Head(methodList)
             unary == normaliseFieldObjectName(m.name)
         IN  (IF Streams(m) THEN <<>>
              ELSE << Ln(2, <<unary, "(">>),
                      Ln(3, <<"let rpcRequest = ">>
                                \o ExpectedEnvelope(serviceName, m.name, "requestMessage")
                                \o <<";">>),
                      Ln(2, <<unary \o "Batch", "(">>),
                      Ln(3, <<"let rpcRequests = requestMessages.map((r) => {return ">>
                                \o ExpectedEnvelope(serviceName, m.name, "r")
                                \o <<";});">>) >>)
             \o ExpectedStubFacts(serviceName, Tail(methodList))

\* C8: the unary and the batch stub of a non-streaming method M of service S
\* both build the envelope with id "1", jsonrpc "2.0", params the request
\* payload (each element, for the batch) and method "S.M" with M the declared
\* name; the batch stub is named the unary stub's name followed by Batch.
C8_EnvelopeUsesDeclaredName ==
    (ServiceReturned /\ Len(fileDescriptor.serviceList) >= 1) =>
        \A s \in DOMAIN fileDescriptor.serviceList :
            StubFacts(ClientBlock(ServiceText, s))
                = ExpectedStubFacts(fileDescriptor.serviceList[s].name,
                                    fileDescriptor.serviceList[s].methodList)

\* stubs were printed for a method whose function name is not its declared name
C8_Witness ==
    /\ ServiceReturned
    /\ \E s \in DOMAIN fileDescriptor.serviceList :
        \E i \in DOMAIN fileDescriptor.serviceList[s].methodList :
            LET m == fileDescriptor.serviceList[s].methodList[i]
            IN  /\ ~Streams(m)
                /\ normaliseFieldObjectName(m.name) # m.name
                /\ \E k \in DOMAIN ServiceText :
                       ServiceText[k] = Ln(2, <<normaliseFieldObjectName(m.name), "(">>)

IsNamespaceLine(line) ==
    Len(line.text) >= 1 /\ line.text[1] = "export namespace "

\* the service names the envelopes of a Client class carry
EnvelopeServices(block) ==
    {block[i].text[6] : i \in LineIndices(block, IsEnvelopeLine)}

\* C9: for a file with N >= 1 services the text holds one namespace block,
\* opened at indent 0 under the first service's name and closed by the last
\* line; the N Client classes are declared inside it, one per service in
\* declaration order.
C9_OneNamespaceManyClients ==
    (ServiceReturned /\ Len(fileDescriptor.serviceList) >= 1) =>
        LET text == ServiceText
            spaces == LineIndices(text, IsNamespaceLine)
            clients == LineIndices(text, IsClientLine)
        IN  /\ Cardinality(spaces) = 1
            /\ \A n \in spaces :
                /\ text[n] = Ln(0, <<"export namespace ",
                                     fileDescriptor.serviceList[1].name, " {">>)
                /\ \A i \in (n + 1)..(Len(text) - 1) :
                       text[i].text = <<>> \/ text[i].indent >= 1
                /\ \A c \in clients : n < c /\ c < Len(text)
            /\ text[Len(text)] = Ln(0, <<"}">>)
            /\ Cardinality(clients) = Len(fileDescriptor.serviceList)
            /\ \A s \in DOMAIN fileDescriptor.serviceList :
                   EnvelopeServices(ClientBlock(text, s))
                       \subseteq {fileDescriptor.serviceList[s].name}

\* two services, each with a stub, were generated into one namespace
C9_Witness ==
    /\ ServiceReturned
    /\ Len(fileDescriptor.serviceList) = 2
    /\ Cardinality(LineIndices(ServiceText, IsClientLine)) = 2
    /\ \A s \in 1..2 : EnvelopeServices(ClientBlock(ServiceText, s)) # {}

\* ====================================================== message printing

MessageReturned == phase = "done" /\ result.kind = "return"

FlaggedMapEntry(md) == md.options # <<>> /\ md.options[1].mapEntry

\* every message of the tree, synthetic entries included
RECURSIVE AllMessages(_)
AllMessages(md) ==
    <<md>> \o Flatten([i \in DOMAIN md.nestedTypeList |->
                          AllMessages(md.nestedTypeList[i])])

\* the messages that are not map entries, outermost first
RECURSIVE MessageChain(_)
MessageChain(md) ==
    LET kids == SelectSeq(md.nestedTypeList, LAMBDA n : ~FlaggedMapEntry(n))
    IN  <<md>> \o (IF kids = <<>> THEN <<>> ELSE MessageChain(kids[1]))

Chain == MessageChain(messageDescriptor)

\* where the class line of the message at a level stands in the returned text
RECURSIVE ClassLineIndex(_)
ClassLineIndex(level) ==
    IF level = 1 THEN 1
    ELSE ClassLineIndex(level - 1) + 1 + Len(Chain[level - 1].fieldList)

\* the fields of the tree, as <<level, index>>
FieldPlaces ==
    {<<level, i>> : level \in DOMAIN Chain, i \in 1..MaxFields + 1}
        \cap {p \in (DOMAIN Chain) \X (1..MaxFields + 1) :
                  p[2] <= Len(Chain[p[1]].fieldList)}

FieldAt(p) == Chain[p[1]].fieldList[p[2]]

\* the text of the line printed for a field
MemberText(p) == result.value[ClassLineIndex(p[1]) + p[2]].text

MemberName(p) == MemberText(p)[1]
MemberMarker(p) == MemberText(p)[2]
MemberType(p) == SubSeq(MemberText(p), 4, Len(MemberText(p)) - 1)

IsMapField(f) ==
    /\ f.type = MESSAGE_TYPE
    /\ hasMessage(exportMap, slice1(f.typeName))
    /\ getMessage(exportMap, slice1(f.typeName)).messageOptions # <<>>
    /\ getMessage(exportMap, slice1(f.typeName)).messageOptions[1].mapEntry

Recorded(f) == getMessage(exportMap, slice1(f.typeName)).mapFieldOptions[1]

Singular(f) == f.label # LABEL_REPEATED

ClassLineNames(text) ==
    LET heads == SelectSeq(text, LAMBDA line :
                     Len(line.text) >= 2 /\ line.text[1] = "export class ")
    IN  [i \in DOMAIN heads |-> heads[i].text[2]]

\* C4: printMessage returns the empty text for a message flagged map-entry; the
\* text returned for a message declares a class for each message of the tree
\* that is not a map entry and for no other; a field whose message type is a
\* map entry is declared Map<K, V> of the entry's recorded key and value
\* types, never Array<...>.
C4_MapEntriesNeverEmitted ==
    /\ \A i \in DOMAIN AllMessages(messageDescriptor) :
        LET md == AllMessages(messageDescriptor)[i]
        IN  FlaggedMapEntry(md) =>
                \A indentLevel \in 0..MaxDepth :
                    LET r == printMessage(fileDescriptor.name, exportMap, md,
                                          indentLevel, fileDescriptor)
                    IN  ~r.thrown /\ r.value = <<>>
    /\ MessageReturned =>
        /\ ClassLineNames(result.value) = [l \in DOMAIN Chain |-> Chain[l].name]
        /\ \A p \in FieldPlaces :
            IsMapField(FieldAt(p)) =>
                LET key == Recorded(FieldAt(p)).key
                    value == Recorded(FieldAt(p)).value
                    K == getFieldType(key[1], key[2], fileDescriptor.name, exportMap)
                    V == getFieldType(value[1], value[2], fileDescriptor.name, exportMap)
                IN  /\ FieldAt(p).label = LABEL_REPEATED
                    /\ MemberType(p) =
                           <<"Map<">> \o K.value \o <<", ">>
                               \o (IF value[1] = BYTES_TYPE
                                   THEN <<"Uint8Array | string">> ELSE V.value)
                               \o <<">">>
                    /\ MemberType(p)[1] # "Array<"

\* a nested message with a map field to a message value was printed
C4_Witness ==
    /\ MessageReturned
    /\ \E p \in FieldPlaces :
        /\ p[1] >= 2
        /\ IsMapField(FieldAt(p))
        /\ Recorded(FieldAt(p)).value[1] = MESSAGE_TYPE
        /\ MemberType(p)[1] = "Map<"
    /\ \E i \in DOMAIN AllMessages(messageDescriptor) :
        FlaggedMapEntry(AllMessages(messageDescriptor)[i])

LegacyDialect == fileDescriptor.syntax \in {"", "proto2"}

AbsentCapable(f) ==
    IF f.type = MESSAGE_TYPE
    THEN ~(LegacyDialect /\ f.label = LABEL_REQUIRED)
    ELSE LegacyDialect

\* C5: the member of a singular field carries the optional marker exactly when
\* the field is absent-capable: a message field unless the file is in the
\* legacy dialect and the field is required, a scalar, enum or byte-sequence
\* field exactly when the file is in the legacy dialect.
C5_OptionalIffAbsentCapable ==
    MessageReturned =>
        \A p \in FieldPlaces :
            Singular(FieldAt(p)) =>
                (MemberMarker(p) = "?" <=> AbsentCapable(FieldAt(p)))

BytesAlternatives == <<"Uint8Array | string">>

\* C6: a byte-sequence field is declared with both alternatives, whatever
\* jstype it carries: Uint8Array | string when singular, Array<Uint8Array |
\* string> when repeated, and Map<K, Uint8Array | string> for a map whose
\* value type is a byte sequence.
C6_BytesAlwaysUnion ==
    MessageReturned =>
        \A p \in FieldPlaces :
            /\ (FieldAt(p).type = BYTES_TYPE /\ Singular(FieldAt(p))) =>
                   MemberType(p) = BytesAlternatives
            /\ (FieldAt(p).type = BYTES_TYPE /\ ~Singular(FieldAt(p))) =>
                   MemberType(p) = <<"Array<">> \o BytesAlternatives \o <<">">>
            /\ (IsMapField(FieldAt(p))
                    /\ Recorded(FieldAt(p)).value[1] = BYTES_TYPE) =>
                   LET t == MemberType(p)
                   IN  /\ t[1] = "Map<"
                       /\ SubSeq(t, Len(t) - 2, Len(t))
                              = <<", ">> \o BytesAlternatives \o <<">">>

\* a singular and a repeated byte-sequence field, both with a jstype, were printed
C6_Witness ==
    /\ MessageReturned
    /\ \E p, q \in FieldPlaces :
        /\ FieldAt(p).type = BYTES_TYPE /\ Singular(FieldAt(p))
        /\ FieldAt(p).options # <<>> /\ FieldAt(p).options[1].jstype = <<"JS_STRING">>
        /\ FieldAt(q).type = BYTES_TYPE /\ ~Singular(FieldAt(q))
        /\ FieldAt(q).options # <<>> /\ FieldAt(q).options[1].jstype = <<"JS_NUMBER">>
        /\ MemberType(p) = BytesAlternatives

Unresolved(f) ==
    \/ f.type = MESSAGE_TYPE /\ ~hasMessage(exportMap, slice1(f.typeName))
    \/ f.type = ENUM_TYPE /\ ~hasEnum(exportMap, slice1(f.typeName))

\* some field of the message, or of a message nested in it at any depth, has an
\* enum or message type the export map does not hold
HasUnresolvedField(md) ==
    \E i \in DOMAIN AllMessages(md) :
        \E j \in DOMAIN AllMessages(md)[i].fieldList :
            Unresolved(AllMessages(md)[i].fieldList[j])

\* C7: when a field of the message or of a message nested in it at any depth
\* has an enum or message type without an export map entry, printMessage
\* throws and returns no text: what its printer held is not handed back.
C7_MissingExportThrows ==
    (phase = "done" /\ HasUnresolvedField(messageDescriptor)) =>
        /\ result.kind = "throw"
        /\ DOMAIN result = {"kind", "error"}

\* the throw came from a nested message after the outer message had printed a member
C7_Witness ==
    /\ phase = "done"
    /\ result.kind = "throw"
    /\ ~(\E j \in DOMAIN messageDescriptor.fieldList :
             Unresolved(messageDescriptor.fieldList[j]))
    /\ \A i \in DOMAIN messageDescriptor.nestedTypeList :
           ~FlaggedMapEntry(messageDescriptor.nestedTypeList[i])
    /\ HasUnresolvedField(messageDescriptor)
    /\ Len(printer) >= 2
    /\ printer[2].indent = 1

\* the fields declared under the normalised name
NormalisedKind(f) == Singular(f) /\ f.type # BYTES_TYPE /\ ~IsMapField(f)

LabelClass(f) == IF f.label = LABEL_REPEATED THEN "repeated" ELSE "singular"

TypeClass(f) ==
    IF IsMapField(f) THEN "map"
    ELSE IF f.type = BYTES_TYPE THEN "bytes"
    ELSE "other"

NameRule ==
    \A p \in FieldPlaces :
        MemberName(p) = IF NormalisedKind(FieldAt(p))
                        THEN normaliseFieldObjectName(FieldAt(p).name)
                        ELSE FieldAt(p).name

\* C10 as stated: the member name is the normalised name only for singular
\* fields that are neither byte sequences nor maps and the raw name otherwise;
\* and two fields of one schema name whose normalisation changes it are
\* declared under different member names whenever they differ in label or in
\* type class.
C10_AsStated ==
    MessageReturned =>
        /\ NameRule
        /\ \A p, q \in FieldPlaces :
            (/\ FieldAt(p).name = FieldAt(q).name
             /\ normaliseFieldObjectName(FieldAt(p).name) # FieldAt(p).name
             /\ \/ LabelClass(FieldAt(p)) # LabelClass(FieldAt(q))
                \/ TypeClass(FieldAt(p)) # TypeClass(FieldAt(q)))
                => MemberName(p) # MemberName(q)

\* C10 amended: the member name is the normalised name only for singular
\* fields that are neither byte sequences nor maps and the raw name otherwise;
\* and two fields of one schema name whose normalisation changes it are
\* declared under different member names whenever exactly one of them is a
\* singular field that is neither a byte sequence nor a map.
C10_MemberNameRule ==
    MessageReturned =>
        /\ NameRule
        /\ \A p, q \in FieldPlaces :
            (/\ FieldAt(p).name = FieldAt(q).name
             /\ normaliseFieldObjectName(FieldAt(p).name) # FieldAt(p).name
             /\ NormalisedKind(FieldAt(p)) # NormalisedKind(FieldAt(q)))
                => MemberName(p) # MemberName(q)

\* a singular scalar and a map field, both named class, were printed in two
\* messages of the tree under different member names
C10_Witness ==
    /\ MessageReturned
    /\ \E p, q \in FieldPlaces :
        /\ FieldAt(p).name = "class" /\ FieldAt(q).name = "class"
        /\ NormalisedKind(FieldAt(p))
        /\ IsMapField(FieldAt(q))
        /\ MemberName(p) = "pb_class"
        /\ MemberName(q) = "class"

====
